---- MODULE Spec2Model ----
(***************************************************************************)
(* State-machine model of the C2FC runtime module                          *)
(* (src/runtime/src/c2fc.rs): buckets ("slots"), free and accepted         *)
(* promises ("commitments"), the enumerable ownership registries, the      *)
(* market operations, fill / fullfill and the per-block breach scanner.    *)
(*                                                                         *)
(* Dispatch in this Substrate generation is not transactional: a handler   *)
(* that returns Err after a storage write keeps that write.  A Rust panic  *)
(* (division by zero, an overflow in a build with overflow checks) aborts  *)
(* the runtime call and nothing of it is committed.                        *)
(***************************************************************************)
EXTENDS Integers, Sequences, FiniteSets, TLC

\* ------------------------------------------------------------------ bounds
InitialBalance == 1  \* free balance of every account at genesis

\* -------------------------------------------------------------- base types
Accounts == {"alice", "bob"}

\* T::Balance is an unsigned integer; BalanceModulus stands for 2^w.
BalanceModulus == 2 ^ 8
BalanceMax == BalanceModulus - 1

\* u64 counters; U64Max stands for 2^64 - 1, above every count reachable here.
\* A run whose counters are to overflow is made with a narrower width (u64_max below).
U64Max == 2 ^ 20

\* Default::default() of T::Hash, what a `map _ => T::Hash` returns for a missing key.
ZeroHash == 0

\* Option<_>
None == << >>
Some(x) == << x >>
IsSome(o) == o # None
Unwrap(o) == o[1]

\* (random_seed, sender, nonce).using_encoded(Hashing::hash): a collision-free digest.
\* Nonce grows with every mint, so no two mints hash the same triple; the digest is
\* named by the nonce, and never equals ZeroHash.
Hash(sender, nonce) == 1 + nonce

\* ------------------------------------------------------------ storage maps
Exists(m, k) == k \in DOMAIN m
Get(m, k, default) == IF k \in DOMAIN m THEN m[k] ELSE default
Put(m, k, v) == [x \in DOMAIN m \cup {k} |-> IF x = k THEN v ELSE m[x]]
Del(m, k) == [x \in DOMAIN m \ {k} |-> m[x]]
EmptyMap == [x \in {} |-> 0]

VARIABLES
    Buckets, BucketOwner, BucketContributor,
    AllBucketsArray, AllBucketsCount, AllBucketsIndex,
    OwnedBucketsArray, OwnedBucketsCount, OwnedBucketsIndex,
    Promises, PromiseOwner,
    FreePromisesArray, FreePromisesCount, FreePromisesIndex,
    OwnedPromisesArray, OwnedPromisesCount, OwnedPromisesIndex,
    AcceptedPromisesArray, AcceptedPromisesCount, AcceptedPromisesIndex,
    AcceptedPromiseBucket,
    LocksCount, LockForPromise,
    Nonce,
    free_balance,      \* balances::Module<T>: FreeBalance
    locks,             \* balances::Module<T>: Locks, per account a sequence of BalanceLock
    block_number,      \* system::Module<T>::block_number()
    overflow_checks,   \* the build: TRUE panics on integer overflow, FALSE wraps
    u64_max,           \* the largest value of a u64 counter in this run
    last,              \* the call being answered: its name, result and deposited events
    filled_sum,        \* history: per promise id, the sum of the deposits of its successful
                       \* fill_bucket calls
    minted_buckets,    \* history: the ids of the successful create_bucket calls, in order
    minted_promises    \* history: the ids of the successful create_promise calls, in order

bucketStore == << Buckets, BucketOwner, BucketContributor >>
allBuckets == << AllBucketsArray, AllBucketsCount, AllBucketsIndex >>
ownedBuckets == << OwnedBucketsArray, OwnedBucketsCount, OwnedBucketsIndex >>
promiseStore == << Promises, PromiseOwner >>
freePromises == << FreePromisesArray, FreePromisesCount, FreePromisesIndex >>
ownedPromises == << OwnedPromisesArray, OwnedPromisesCount, OwnedPromisesIndex >>
acceptedPromises == << AcceptedPromisesArray, AcceptedPromisesCount, AcceptedPromisesIndex,
                       AcceptedPromiseBucket >>
lockStore == << LocksCount, LockForPromise >>

\* every storage item of the module
storage == << bucketStore, allBuckets, ownedBuckets, promiseStore, freePromises,
              ownedPromises, acceptedPromises, lockStore, Nonce >>

\* what no call changes: the build and the width of the counters
fixed == << overflow_checks, u64_max >>

\* what the calls so far have done, kept for the properties only
history == << filled_sum, minted_buckets, minted_promises >>

vars == << storage, free_balance, locks, block_number, fixed, last, history >>

\* a faulty increment: the counter stays where it is
checked_add_stuck(n) == Some(n)

checked_add(n) == IF n + 1 > u64_max THEN None ELSE Some(n + 1)
checked_sub(n) == IF n - 1 < 0 THEN None ELSE Some(n - 1)

\* --------------------------------------------------------------- accessors
DefaultBucket == [id |-> ZeroHash, promise |-> None, price |-> 0]
DefaultFreePromise == [id |-> ZeroHash, value |-> 0, period |-> 0, until |-> None]

bucket(bucket_id) == Get(Buckets, bucket_id, DefaultBucket)
owner_of(bucket_id) == IF Exists(BucketOwner, bucket_id) THEN Some(BucketOwner[bucket_id]) ELSE None
promise(promise_id) == Get(Promises, promise_id, DefaultFreePromise)
owner_of_promise(promise_id) ==
    IF Exists(PromiseOwner, promise_id) THEN Some(PromiseOwner[promise_id]) ELSE None
owned_bucket_count(who) == Get(OwnedBucketsCount, who, 0)
owned_promise_count(who) == Get(OwnedPromisesCount, who, 0)
bucket_by_promise(promise_id) == Get(AcceptedPromiseBucket, promise_id, ZeroHash)
accepted_promise_by_index(i) == Get(AcceptedPromisesArray, i, ZeroHash)

\* The outcome of a call, as its caller and the event sink see it.
Outcome(op, result, events) ==
    last' = [op |-> op, result |-> result, events |-> events]

Ok == "Ok"
Panic == "Panic"

\* No call is being answered: the runtime is ready for the next one.
NoCall == [op |-> "none", result |-> Ok, events |-> << >>]
Idle == last = NoCall

\* The runtime hands the result of the call to its caller and the deposited events to
\* the event sink.  Calls run one at a time: the next one starts after this.
Return ==
    /\ ~Idle
    /\ last' = NoCall
    /\ UNCHANGED << storage, free_balance, block_number, fixed, locks, history >>

\* ------------------------------------------------------------------- Init
Genesis ==
    /\ Buckets = EmptyMap /\ BucketOwner = EmptyMap /\ BucketContributor = EmptyMap
    /\ AllBucketsArray = EmptyMap /\ AllBucketsCount = 0 /\ AllBucketsIndex = EmptyMap
    /\ OwnedBucketsArray = EmptyMap /\ OwnedBucketsCount = EmptyMap
    /\ OwnedBucketsIndex = EmptyMap
    /\ Promises = EmptyMap /\ PromiseOwner = EmptyMap
    /\ FreePromisesArray = EmptyMap /\ FreePromisesCount = 0 /\ FreePromisesIndex = EmptyMap
    /\ OwnedPromisesArray = EmptyMap /\ OwnedPromisesCount = EmptyMap
    /\ OwnedPromisesIndex = EmptyMap
    /\ AcceptedPromisesArray = EmptyMap /\ AcceptedPromisesCount = 0
    /\ AcceptedPromisesIndex = EmptyMap /\ AcceptedPromiseBucket = EmptyMap
    /\ LocksCount = 0 /\ LockForPromise = EmptyMap
    /\ Nonce = 0
    /\ free_balance = [a \in Accounts |-> InitialBalance]
    /\ locks = [a \in Accounts |-> << >>]
    /\ block_number = 1
    /\ overflow_checks \in BOOLEAN
    /\ last = NoCall
    /\ filled_sum = EmptyMap
    /\ minted_buckets = << >>
    /\ minted_promises = << >>

\* the state after construction, in a run with counters as wide as U64Max
Init == Genesis /\ u64_max = U64Max

\* ------------------------------------------------------------ mint_bucket
\* The guards of mint_bucket: Ok, or the error it returns before any write.
mint_bucket_check(to, bucket_id) ==
    IF Exists(BucketOwner, bucket_id) THEN "Bucket already exists"
    ELSE IF checked_add(owned_bucket_count(to)) = None
        THEN "Overflow adding a new bucket to account balance"
    ELSE IF checked_add(AllBucketsCount) = None
        THEN "Overflow adding a new bucket to total supply"
    ELSE Ok

\* a faulty mint_bucket: the reverse index records the new count instead of the slot written
mint_bucket_index_off_by_one(to, bucket_id, new_bucket) ==
    LET owned_bucket_count_ == owned_bucket_count(to)
        all_buckets_count == AllBucketsCount
    IN  /\ Buckets' = Put(Buckets, bucket_id, new_bucket)
        /\ BucketOwner' = Put(BucketOwner, bucket_id, to)
        /\ AllBucketsArray' = Put(AllBucketsArray, all_buckets_count, bucket_id)
        /\ AllBucketsCount' = Unwrap(checked_add(all_buckets_count))
        /\ AllBucketsIndex' = Put(AllBucketsIndex, bucket_id, all_buckets_count + 1)
        /\ OwnedBucketsArray' = Put(OwnedBucketsArray, << to, owned_bucket_count_ >>, bucket_id)
        /\ OwnedBucketsCount' = Put(OwnedBucketsCount, to, Unwrap(checked_add(owned_bucket_count_)))
        /\ OwnedBucketsIndex' = Put(OwnedBucketsIndex, bucket_id, owned_bucket_count_)

\* The writes of a mint_bucket that passed its guards.
mint_bucket(to, bucket_id, new_bucket) ==
    LET owned_bucket_count_ == owned_bucket_count(to)
        all_buckets_count == AllBucketsCount
    IN  /\ Buckets' = Put(Buckets, bucket_id, new_bucket)
        /\ BucketOwner' = Put(BucketOwner, bucket_id, to)
        /\ AllBucketsArray' = Put(AllBucketsArray, all_buckets_count, bucket_id)
        /\ AllBucketsCount' = Unwrap(checked_add(all_buckets_count))
        /\ AllBucketsIndex' = Put(AllBucketsIndex, bucket_id, all_buckets_count)
        /\ OwnedBucketsArray' = Put(OwnedBucketsArray, << to, owned_bucket_count_ >>, bucket_id)
        /\ OwnedBucketsCount' = Put(OwnedBucketsCount, to, Unwrap(checked_add(owned_bucket_count_)))
        /\ OwnedBucketsIndex' = Put(OwnedBucketsIndex, bucket_id, owned_bucket_count_)

create_bucket(sender) ==
    LET bucket_id == Hash(sender, Nonce)
        new_bucket == [id |-> bucket_id, promise |-> None, price |-> 0]
        check == mint_bucket_check(sender, bucket_id)
    IN  /\ IF check = Ok
           THEN /\ mint_bucket(sender, bucket_id, new_bucket)
                /\ Nonce' = Nonce + 1
                /\ Outcome("create_bucket", Ok,
                           << << "BucketCreated", sender, bucket_id >> >>)
                /\ minted_buckets' = Append(minted_buckets, bucket_id)
                /\ UNCHANGED << lockStore, BucketContributor, promiseStore, freePromises,
                                ownedPromises,
                                acceptedPromises, filled_sum, minted_promises >>
           ELSE /\ Outcome("create_bucket", check, << >>)
                /\ UNCHANGED << storage, history >>
        /\ UNCHANGED << free_balance, block_number, fixed, locks >>

\* ----------------------------------------------------------- mint_promise
mint_promise_check(to, promise_id) ==
    IF Exists(PromiseOwner, promise_id) THEN "Promise already exists"
    ELSE IF checked_add(owned_promise_count(to)) = None
        THEN "Overflow adding a new promise to account balance"
    ELSE IF checked_add(FreePromisesCount) = None
        THEN "Overflow adding a new promise to total supply"
    ELSE Ok

mint_promise(to, promise_id, new_promise) ==
    LET owned_promise_count_ == owned_promise_count(to)
        free_promises_count == FreePromisesCount
    IN  /\ Promises' = Put(Promises, promise_id, new_promise)
        /\ PromiseOwner' = Put(PromiseOwner, promise_id, to)
        /\ FreePromisesArray' = Put(FreePromisesArray, free_promises_count, promise_id)
        /\ FreePromisesCount' = Unwrap(checked_add(free_promises_count))
        /\ FreePromisesIndex' = Put(FreePromisesIndex, promise_id, free_promises_count)
        /\ OwnedPromisesArray' =
               Put(OwnedPromisesArray, << to, owned_promise_count_ >>, promise_id)
        /\ OwnedPromisesCount' =
               Put(OwnedPromisesCount, to, Unwrap(checked_add(owned_promise_count_)))
        /\ OwnedPromisesIndex' = Put(OwnedPromisesIndex, promise_id, owned_promise_count_)

create_promise_until(sender, value, period, until) ==
    LET promise_id == Hash(sender, Nonce)
        new_promise == [id |-> promise_id, value |-> value, period |-> period, until |-> until]
        check == mint_promise_check(sender, promise_id)
    IN  /\ IF check = Ok
           THEN /\ mint_promise(sender, promise_id, new_promise)
                /\ Nonce' = Nonce + 1
                /\ Outcome("create_promise_until", Ok,
                           << << "PromiseCreated", sender, promise_id >> >>)
                /\ minted_promises' = Append(minted_promises, promise_id)
                /\ UNCHANGED << lockStore, bucketStore, allBuckets, ownedBuckets, acceptedPromises,
                                filled_sum, minted_buckets >>
           ELSE /\ Outcome("create_promise_until", check, << >>)
                /\ UNCHANGED << storage, history >>
        /\ UNCHANGED << free_balance, block_number, fixed, locks >>

\* fn create_promise: create_promise_until with until = None
create_promise(sender, value, period) == create_promise_until(sender, value, period, None)

\* ---------------------------------------------------------- transfer_money
\* <balances::Module<T> as Currency>::transfer: Ok, or the ledger's error (nothing moves).
\* The locks this module sets carry WithdrawReason::Reserve only and do not restrict it.
transfer_money_check(from, to, amount) ==
    IF free_balance[from] < amount THEN "balance too low to send value"
    ELSE IF free_balance[to] + amount > BalanceMax
        THEN "destination balance too high to receive value"
    ELSE Ok

\* a faulty ledger: the payee is credited and the payer is not debited
transfer_money_credits_only(from, to, amount) ==
    IF from = to THEN free_balance
    ELSE [free_balance EXCEPT ![to] = @ + amount]

\* The ledger after a transfer that passed its checks.
transfer_money(from, to, amount) ==
    IF from = to THEN free_balance
    ELSE [free_balance EXCEPT ![from] = @ - amount, ![to] = @ + amount]

\* ----------------------------------------------------------- transfer_from
transfer_from_check(from, to, bucket_id) ==
    IF owner_of(bucket_id) = None THEN "No owner for this bucket"
    ELSE IF Unwrap(owner_of(bucket_id)) # from THEN "'from' account does not own this bucket"
    ELSE IF checked_add(owned_bucket_count(to)) = None
        THEN "Transfer causes overflow of 'to' bucket balance"
    ELSE IF checked_sub(owned_bucket_count(from)) = None
        THEN "Transfer causes underflow of 'from' bucket balance"
    ELSE Ok

\* The writes of a transfer_from that passed its guards, in the order of the code.
transfer_from(from, to, bucket_id) ==
    LET owned_bucket_count_from == owned_bucket_count(from)
        owned_bucket_count_to == owned_bucket_count(to)
        new_owned_bucket_count_to == Unwrap(checked_add(owned_bucket_count_to))
        new_owned_bucket_count_from == Unwrap(checked_sub(owned_bucket_count_from))
        bucket_index == Get(OwnedBucketsIndex, bucket_id, 0)
        swap == bucket_index # new_owned_bucket_count_from
        last_bucket_id ==
            Get(OwnedBucketsArray, << from, new_owned_bucket_count_from >>, ZeroHash)
        \* "Swap and pop"
        array1 == IF swap THEN Put(OwnedBucketsArray, << from, bucket_index >>, last_bucket_id)
                          ELSE OwnedBucketsArray
        index1 == IF swap THEN Put(OwnedBucketsIndex, last_bucket_id, bucket_index)
                          ELSE OwnedBucketsIndex
        index2 == Put(index1, bucket_id, owned_bucket_count_to)
        array2 == Del(array1, << from, new_owned_bucket_count_from >>)
        array3 == Put(array2, << to, owned_bucket_count_to >>, bucket_id)
        count1 == Put(OwnedBucketsCount, from, new_owned_bucket_count_from)
        count2 == Put(count1, to, new_owned_bucket_count_to)
    IN  /\ BucketOwner' = Put(BucketOwner, bucket_id, to)
        /\ OwnedBucketsIndex' = index2
        /\ OwnedBucketsArray' = array3
        /\ OwnedBucketsCount' = count2

\* The bucket ids a caller may name: every minted one, and one that was never minted.
BucketIds == DOMAIN Buckets \cup {ZeroHash}
PromiseIds == DOMAIN Promises \cup {ZeroHash}

transfer(sender, to, bucket_id) ==
    LET owner == owner_of(bucket_id)
        check == IF owner = None THEN "No owner for this bucket"
                 ELSE IF Unwrap(owner) # sender THEN "You do not own this bucket"
                 ELSE transfer_from_check(sender, to, bucket_id)
    IN  /\ IF check = Ok
           THEN /\ transfer_from(sender, to, bucket_id)
                /\ Outcome("transfer", Ok,
                           << << "Transferred", sender, to, bucket_id >> >>)
                /\ UNCHANGED << lockStore, Buckets, BucketContributor, allBuckets, promiseStore,
                                freePromises, ownedPromises, acceptedPromises, Nonce >>
           ELSE /\ Outcome("transfer", check, << >>)
                /\ UNCHANGED storage
        /\ UNCHANGED << free_balance, block_number, fixed, locks, history >>

\* --------------------------------------------------------------- set_price
\* a faulty set_price: the bucket is stored anew, without the promise it held
set_price_drops(sender, bucket_id, new_price) ==
    LET owner == owner_of(bucket_id)
        check == IF ~Exists(Buckets, bucket_id) THEN "This bucket does not exist"
                 ELSE IF owner = None THEN "No owner for this bucket"
                 ELSE IF Unwrap(owner) # sender THEN "You do not own this bucket"
                 ELSE Ok
    IN  /\ IF check = Ok
           THEN /\ Buckets' = Put(Buckets, bucket_id,
                                  [id |-> bucket_id, promise |-> None, price |-> new_price])
                /\ Outcome("set_price", Ok,
                           << << "PriceSet", sender, bucket_id, new_price >> >>)
                /\ UNCHANGED << lockStore, BucketOwner, BucketContributor, allBuckets,
                                ownedBuckets, promiseStore, freePromises, ownedPromises,
                                acceptedPromises, Nonce >>
           ELSE /\ Outcome("set_price", check, << >>)
                /\ UNCHANGED storage
        /\ UNCHANGED << free_balance, block_number, fixed, locks, history >>

set_price(sender, bucket_id, new_price) ==
    LET owner == owner_of(bucket_id)
        check == IF ~Exists(Buckets, bucket_id) THEN "This bucket does not exist"
                 ELSE IF owner = None THEN "No owner for this bucket"
                 ELSE IF Unwrap(owner) # sender THEN "You do not own this bucket"
                 ELSE Ok
    IN  /\ IF check = Ok
           THEN /\ Buckets' = Put(Buckets, bucket_id,
                                  [bucket(bucket_id) EXCEPT !.price = new_price])
                /\ Outcome("set_price", Ok,
                           << << "PriceSet", sender, bucket_id, new_price >> >>)
                /\ UNCHANGED << lockStore, BucketOwner, BucketContributor, allBuckets, ownedBuckets,
                                promiseStore, freePromises, ownedPromises, acceptedPromises,
                                Nonce >>
           ELSE /\ Outcome("set_price", check, << >>)
                /\ UNCHANGED storage
        /\ UNCHANGED << free_balance, block_number, fixed, locks, history >>

\* -------------------------------------------------------------- buy_bucket
\* faulty guards: a bucket whose price is 0 is taken to be for sale
buy_bucket_check_any_price(sender, bucket_id, max_price) ==
    LET owner == owner_of(bucket_id)
        bucket_price == bucket(bucket_id).price
    IN  IF ~Exists(Buckets, bucket_id) THEN "This bucket does not exist"
        ELSE IF owner = None THEN "No owner for this bucket"
        ELSE IF Unwrap(owner) = sender THEN "You can't buy your own bucket"
        ELSE IF ~(bucket_price <= max_price)
            THEN "The bucket you want to buy costs more than your max price"
        ELSE Ok

\* The guards of buy_bucket that precede the payment.
buy_bucket_check(sender, bucket_id, max_price) ==
    LET owner == owner_of(bucket_id)
        bucket_price == bucket(bucket_id).price
    IN  IF ~Exists(Buckets, bucket_id) THEN "This bucket does not exist"
        ELSE IF owner = None THEN "No owner for this bucket"
        ELSE IF Unwrap(owner) = sender THEN "You can't buy your own bucket"
        ELSE IF bucket_price = 0 THEN "The bucket you want to buy is not for sale"
        ELSE IF ~(bucket_price <= max_price)
            THEN "The bucket you want to buy costs more than your max price"
        ELSE Ok

buy_bucket(sender, bucket_id, max_price) ==
    LET check == buy_bucket_check(sender, bucket_id, max_price)
        owner == Unwrap(owner_of(bucket_id))
        bucket_ == bucket(bucket_id)
        bucket_price == bucket_.price
    IN  /\ UNCHANGED << block_number, fixed, locks, history >>
        /\ IF check # Ok
           THEN /\ Outcome("buy_bucket", check, << >>)
                /\ UNCHANGED << storage, free_balance >>
           ELSE IF transfer_money_check(sender, owner, bucket_price) # Ok
           THEN /\ Outcome("buy_bucket", transfer_money_check(sender, owner, bucket_price),
                           << >>)
                /\ UNCHANGED << storage, free_balance >>
           ELSE IF transfer_from_check(owner, sender, bucket_id) # Ok
           THEN \* the payment stays: nothing rolls it back
                /\ free_balance' = transfer_money(sender, owner, bucket_price)
                /\ Outcome("buy_bucket", transfer_from_check(owner, sender, bucket_id),
                           << >>)
                /\ UNCHANGED storage
           ELSE /\ free_balance' = transfer_money(sender, owner, bucket_price)
                /\ transfer_from(owner, sender, bucket_id)
                /\ Buckets' = Put(Buckets, bucket_id, [bucket_ EXCEPT !.price = 0])
                /\ Outcome("buy_bucket", Ok,
                           << << "Transferred", owner, sender, bucket_id >>,
                              << "Bought", sender, owner, bucket_id, bucket_price >> >>)
                /\ UNCHANGED << lockStore, BucketContributor, allBuckets, promiseStore,
                                freePromises,
                                ownedPromises, acceptedPromises, Nonce >>

\* ---------------------------------------------------------- accept_promise
\* faulty guards: without "already accepted" and "already contains another promise"
accept_promise_check_reattach(sender, promise_id, bucket_id) ==
    LET bucket_owner == owner_of(bucket_id)
        promise_owner == owner_of_promise(promise_id)
    IN  IF ~Exists(Buckets, bucket_id) THEN "This bucket does not exist"
        ELSE IF ~Exists(Promises, promise_id) THEN "This promise does not exist"
        ELSE IF bucket_owner = None THEN "No owner for this bucket"
        ELSE IF Unwrap(bucket_owner) # sender THEN "You do not own this promise"
        ELSE IF promise_owner = None THEN "No owner for this promise"
        ELSE IF Unwrap(promise_owner) = sender THEN "You can not accept your own promise"
        ELSE Ok

\* faulty guards: without "Bucket already contains another promise"
accept_promise_check_occupied(sender, promise_id, bucket_id) ==
    LET bucket_owner == owner_of(bucket_id)
        promise_owner == owner_of_promise(promise_id)
    IN  IF ~Exists(Buckets, bucket_id) THEN "This bucket does not exist"
        ELSE IF ~Exists(Promises, promise_id) THEN "This promise does not exist"
        ELSE IF Exists(AcceptedPromiseBucket, promise_id) THEN "This promise is already accepted"
        ELSE IF bucket_owner = None THEN "No owner for this bucket"
        ELSE IF Unwrap(bucket_owner) # sender THEN "You do not own this promise"
        ELSE IF promise_owner = None THEN "No owner for this promise"
        ELSE IF Unwrap(promise_owner) = sender THEN "You can not accept your own promise"
        ELSE Ok

\* faulty guards: without "You can not accept your own promise"
accept_promise_check_own(sender, promise_id, bucket_id) ==
    LET bucket_owner == owner_of(bucket_id)
        promise_owner == owner_of_promise(promise_id)
    IN  IF ~Exists(Buckets, bucket_id) THEN "This bucket does not exist"
        ELSE IF ~Exists(Promises, promise_id) THEN "This promise does not exist"
        ELSE IF Exists(AcceptedPromiseBucket, promise_id) THEN "This promise is already accepted"
        ELSE IF bucket_owner = None THEN "No owner for this bucket"
        ELSE IF Unwrap(bucket_owner) # sender THEN "You do not own this promise"
        ELSE IF promise_owner = None THEN "No owner for this promise"
        ELSE IF IsSome(bucket(bucket_id).promise) THEN "Bucket already contains another promise"
        ELSE Ok

\* The guards of accept_promise, in the order of the code: Ok, or the error returned
\* before any write.
accept_promise_check(sender, promise_id, bucket_id) ==
    LET bucket_owner == owner_of(bucket_id)
        promise_owner == owner_of_promise(promise_id)
    IN  IF ~Exists(Buckets, bucket_id) THEN "This bucket does not exist"
        ELSE IF ~Exists(Promises, promise_id) THEN "This promise does not exist"
        ELSE IF Exists(AcceptedPromiseBucket, promise_id) THEN "This promise is already accepted"
        ELSE IF bucket_owner = None THEN "No owner for this bucket"
        ELSE IF Unwrap(bucket_owner) # sender THEN "You do not own this promise"
        ELSE IF promise_owner = None THEN "No owner for this promise"
        ELSE IF Unwrap(promise_owner) = sender THEN "You can not accept your own promise"
        ELSE IF IsSome(bucket(bucket_id).promise) THEN "Bucket already contains another promise"
        ELSE Ok

accept_promise(sender, promise_id, bucket_id) ==
    LET check == accept_promise_check(sender, promise_id, bucket_id)
        promise_owner == Unwrap(owner_of_promise(promise_id))
        free_promise == promise(promise_id)
        promise_ == [id |-> free_promise.id,
                     owner |-> promise_owner,
                     value |-> free_promise.value,
                     period |-> free_promise.period,
                     until |-> free_promise.until,
                     acception_dt |-> block_number,
                     filled |-> 0]
        bucket_ == [bucket(bucket_id) EXCEPT !.promise = Some(promise_)]
        accepted_promises_count == AcceptedPromisesCount
        new_accepted_promises_count == checked_add(accepted_promises_count)
    IN  /\ UNCHANGED << free_balance, block_number, fixed, locks, minted_buckets,
                        minted_promises >>
        /\ IF check # Ok
           THEN /\ Outcome("accept_promise", check, << >>)
                /\ UNCHANGED << storage, filled_sum >>
           ELSE IF new_accepted_promises_count = None
           THEN \* the bucket and the promise -> bucket map are already written
                /\ Buckets' = Put(Buckets, bucket_id, bucket_)
                /\ AcceptedPromiseBucket' = Put(AcceptedPromiseBucket, promise_id, bucket_id)
                /\ filled_sum' = Put(filled_sum, promise_id, 0)
                /\ Outcome("accept_promise", "Overflow adding a new promise to total supply", << >>)
                /\ UNCHANGED << lockStore, BucketOwner, BucketContributor, allBuckets, ownedBuckets,
                                promiseStore, freePromises, ownedPromises,
                                AcceptedPromisesArray, AcceptedPromisesCount,
                                AcceptedPromisesIndex, Nonce >>
           ELSE /\ Buckets' = Put(Buckets, bucket_id, bucket_)
                /\ AcceptedPromiseBucket' = Put(AcceptedPromiseBucket, promise_id, bucket_id)
                /\ BucketContributor' = Put(BucketContributor, bucket_id, promise_owner)
                /\ AcceptedPromisesArray' =
                       Put(AcceptedPromisesArray, accepted_promises_count, promise_id)
                /\ AcceptedPromisesCount' = Unwrap(new_accepted_promises_count)
                /\ AcceptedPromisesIndex' =
                       Put(AcceptedPromisesIndex, promise_id, accepted_promises_count)
                /\ Nonce' = Nonce + 1
                /\ filled_sum' = Put(filled_sum, promise_id, 0)
                /\ Outcome("accept_promise", Ok,
                           << << "PromiseAccepted", promise_id, bucket_id >> >>)
                /\ UNCHANGED << lockStore, BucketOwner, allBuckets, ownedBuckets, promiseStore,
                                freePromises, ownedPromises >>

\* ------------------------------------------------------------- fill_bucket
\* The guards of fill_bucket that precede the payment.
fill_bucket_check(sender, bucket_id) ==
    LET owner == owner_of(bucket_id)
        bucket_ == bucket(bucket_id)
    IN  IF ~Exists(Buckets, bucket_id) THEN "This bucket does not exist"
        ELSE IF owner = None THEN "No owner for this bucket"
        ELSE IF Unwrap(owner) = sender THEN "You can't fill your own bucket"
        ELSE IF ~IsSome(bucket_.promise) THEN "This bucket does not contains promise"
        ELSE IF Unwrap(bucket_.promise).value = 0
            THEN "The promise in the bucket you want to fill is invalid"
        ELSE IF ~(Unwrap(bucket_.promise).filled <= Unwrap(bucket_.promise).value)
            THEN "The bucket you want to fill is already fullfilled"
        ELSE Ok

\* a faulty sum: the deposit replaces what was filled before
fill_bucket_filled_forgets(deposit, filled) == deposit

\* promise.filled = deposit + promise.filled, before the width of T::Balance is applied
fill_bucket_filled(deposit, filled) == deposit + filled

\* The body of fill_bucket, run for the call `op`
\* (fill_bucket itself, or fullfill_bucket which ends by calling it).
fill_bucket_body(op, sender, bucket_id, deposit) ==
    LET check == fill_bucket_check(sender, bucket_id)
        owner == Unwrap(owner_of(bucket_id))
        bucket_ == bucket(bucket_id)
        promise_ == Unwrap(bucket_.promise)
        promise_id == promise_.id
        sum == fill_bucket_filled(deposit, promise_.filled)
        new_filled == sum % BalanceModulus
        filled_promise == [promise_ EXCEPT !.filled = new_filled]
        fullfilled == new_filled >= promise_.value
    IN  /\ UNCHANGED << block_number, fixed, locks, minted_buckets, minted_promises >>
        /\ UNCHANGED << lockStore, BucketOwner, BucketContributor, allBuckets, ownedBuckets,
                        promiseStore,
                        freePromises, ownedPromises, acceptedPromises, Nonce >>
        /\ IF check # Ok
           THEN /\ Outcome(op, check, << >>)
                /\ UNCHANGED << Buckets, free_balance, filled_sum >>
           ELSE IF transfer_money_check(sender, owner, deposit) # Ok
           THEN /\ Outcome(op, transfer_money_check(sender, owner, deposit), << >>)
                /\ UNCHANGED << Buckets, free_balance, filled_sum >>
           ELSE IF sum > BalanceMax /\ overflow_checks
           THEN \* attempt to add with overflow: the call aborts, nothing is committed
                /\ Outcome(op, Panic, << >>)
                /\ UNCHANGED << Buckets, free_balance, filled_sum >>
           ELSE /\ free_balance' = transfer_money(sender, owner, deposit)
                /\ Buckets' = Put(Buckets, bucket_id,
                                  [bucket_ EXCEPT !.promise = Some(filled_promise)])
                /\ filled_sum' = IF op = "fill_bucket"
                                  THEN Put(filled_sum, promise_id,
                                           Get(filled_sum, promise_id, 0) + deposit)
                                  ELSE filled_sum
                /\ Outcome(op, Ok,
                           << << "PromiseFilled", bucket_id, promise_id, deposit >> >>
                           \o (IF fullfilled
                               THEN << << "PromiseFullilled", bucket_id, promise_id >> >>
                               ELSE << >>))

fill_bucket(sender, bucket_id, deposit) ==
    fill_bucket_body("fill_bucket", sender, bucket_id, deposit)

\* --------------------------------------------------------- fullfill_bucket
fullfill_bucket(sender, bucket_id) ==
    LET bucket_ == bucket(bucket_id)
        promise_ == Unwrap(bucket_.promise)
        difference == promise_.filled - promise_.value
        deposit == difference % BalanceModulus
    IN  IF ~Exists(Buckets, bucket_id)
        THEN /\ Outcome("fullfill_bucket", "This bucket does not exist", << >>)
             /\ UNCHANGED << storage, free_balance, block_number, fixed, locks, history >>
        ELSE IF ~IsSome(bucket_.promise)
        THEN /\ Outcome("fullfill_bucket", "This bucket doesnt contains an accepted promise", << >>)
             /\ UNCHANGED << storage, free_balance, block_number, fixed, locks, history >>
        ELSE IF difference < 0 /\ overflow_checks
        THEN \* attempt to subtract with overflow
             /\ Outcome("fullfill_bucket", Panic, << >>)
             /\ UNCHANGED << storage, free_balance, block_number, fixed, locks, history >>
        ELSE fill_bucket_body("fullfill_bucket", sender, bucket_id, deposit)

\* ------------------------------------------------------------- on_finalise
\* One iteration of the scanner's loop, at block n: whether it panics, and the
\* events it deposits.  The two subtractions come first, then the remainder.
on_finalise_entry(i, n) ==
    LET promise_id == accepted_promise_by_index(i)
        bucket_id == bucket_by_promise(promise_id)
        bucket_ == bucket(bucket_id)
        promise_ == Unwrap(bucket_.promise)
        lifetime_raw == n - promise_.acception_dt
        lifetime == lifetime_raw % (U64Max + 1)
        wanted_raw == promise_.filled - promise_.value
        wanted_deposit == wanted_raw % BalanceModulus
    IN  IF ~Exists(Buckets, bucket_id) \/ ~IsSome(bucket_.promise)
        THEN [panic |-> FALSE, events |-> << >>]
        ELSE IF (lifetime_raw < 0 \/ wanted_raw < 0) /\ overflow_checks
        THEN [panic |-> TRUE, events |-> << >>]     \* attempt to subtract with overflow
        ELSE IF promise_.period = 0
        THEN [panic |-> TRUE, events |-> << >>]     \* remainder with a divisor of zero
        ELSE IF lifetime % promise_.period = 0 /\ wanted_deposit > 0
        THEN [panic |-> FALSE,
              events |-> << << "PromiseBreached", bucket_id, promise_id, wanted_deposit >> >>]
        ELSE [panic |-> FALSE, events |-> << >>]

RECURSIVE on_finalise_loop(_, _, _)
\* for i in from..accepted_promises_count
on_finalise_loop(from, accepted_promises_count, n) ==
    IF from >= accepted_promises_count THEN [panic |-> FALSE, events |-> << >>]
    ELSE LET this == on_finalise_entry(from, n)
             rest == on_finalise_loop(from + 1, accepted_promises_count, n)
         IN  IF this.panic THEN this
             ELSE [panic |-> rest.panic, events |-> this.events \o rest.events]

\* a faulty scanner: it starts every promise's new period with filled = 0
on_finalise_resets ==
    LET n == block_number
        run == on_finalise_loop(0, AcceptedPromisesCount, n)
        reset(b) == IF IsSome(b.promise)
                    THEN [b EXCEPT !.promise = Some([Unwrap(b.promise) EXCEPT !.filled = 0])]
                    ELSE b
    IN  /\ Outcome("on_finalise", Ok, run.events)
        /\ block_number' = block_number + 1
        /\ Buckets' = [id \in DOMAIN Buckets |-> reset(Buckets[id])]
        /\ UNCHANGED << lockStore, BucketOwner, BucketContributor, allBuckets, ownedBuckets,
                        promiseStore, freePromises, ownedPromises, acceptedPromises, Nonce >>
        /\ UNCHANGED << free_balance, fixed, locks, history >>

\* The time driver ends block n: the scanner runs, and the next block begins.
\* A scanner that panics leaves the block unfinalised.
on_finalise ==
    LET n == block_number
        run == on_finalise_loop(0, AcceptedPromisesCount, n)
    IN  /\ IF run.panic
           THEN /\ Outcome("on_finalise", Panic, << >>)
                /\ UNCHANGED block_number
           ELSE /\ Outcome("on_finalise", Ok, run.events)
                /\ block_number' = block_number + 1
        /\ UNCHANGED << storage, free_balance, fixed, locks, history >>

\* ------------------------------------------------------------ edit_promise
\* The owner is looked up with owner_of, the getter of BucketOwner.
edit_promise_check(sender, promise_id) ==
    LET owner == owner_of(promise_id)
    IN  IF ~Exists(Promises, promise_id) THEN "This promise does not exist"
        ELSE IF owner = None THEN "No owner for this promise"
        ELSE IF Unwrap(owner) # sender THEN "You do not own this promise"
        ELSE Ok

edit_promise(sender, promise_id, value, period) ==
    LET check == edit_promise_check(sender, promise_id)
    IN  /\ IF check = Ok
           THEN /\ Promises' = Put(Promises, promise_id,
                                   [promise(promise_id) EXCEPT !.value = value,
                                                               !.period = period])
                /\ Outcome("edit_promise", Ok, << << "PromiseChanged", promise_id >> >>)
                /\ UNCHANGED << bucketStore, allBuckets, ownedBuckets, PromiseOwner,
                                freePromises, ownedPromises, acceptedPromises, lockStore,
                                Nonce >>
           ELSE /\ Outcome("edit_promise", check, << >>)
                /\ UNCHANGED storage
        /\ UNCHANGED << free_balance, locks, block_number, fixed, history >>

\* ------------------------------------------------------- the ledger's locks
\* get_lock: the first lock of `who` with the identifier, or None
get_lock(who, lock_id) ==
    LET found == SelectSeq(locks[who], LAMBDA l : l.id = lock_id)
    IN  IF found = << >> THEN None ELSE Some(found[1])

\* <balances::Module<T>>::set_lock: the lock with this identifier is replaced, or
\* the new lock is appended; locks that have expired are dropped on the way.
set_lock(lock_id, who, amount, until) ==
    LET new_lock == [id |-> lock_id, amount |-> amount, until |-> until]
        kept == SelectSeq(locks[who], LAMBDA l : l.id = lock_id \/ l.until > block_number)
        replaced == [i \in 1 .. Len(kept) |-> IF kept[i].id = lock_id THEN new_lock
                                                                      ELSE kept[i]]
    IN  IF get_lock(who, lock_id) = None THEN Append(replaced, new_lock) ELSE replaced

\* <balances::Module<T>>::remove_lock: the locks that have not expired, without this one
remove_lock(lock_id, who) ==
    SelectSeq(locks[who], LAMBDA l : l.until > block_number /\ l.id # lock_id)

\* a faulty allocation: the count itself, not the count plus one
next_free_lock_identifier_stale == LocksCount

\* fn next_free_lock_identifier: the little-endian bytes of locks_count + 1
next_free_lock_identifier == LocksCount + 1

\* --------------------------------------------------------- stake_to_promise
\* What the unsafe block of stake_to_promise can do.  It casts the number
\* BlockNumber::max_value() to a pointer and reads a block number through it, and
\* it is an argument of unwrap_or, so it runs whether or not the promise has an
\* `until`: the read traps (None), or it yields whatever the build finds there.
Trap == None
UnsafeReads == {Trap, Some(0), Some(U64Max)}

\* The guards of stake_to_promise that precede the unsafe read.
stake_to_promise_check(sender, promise_id) ==
    LET owner == owner_of_promise(promise_id)
    IN  IF ~Exists(Promises, promise_id) THEN "This promise does not exist"
        ELSE IF owner = None THEN "No owner for this promise"
        ELSE IF Unwrap(owner) # sender THEN "You do not own this promise"
        ELSE IF /\ Exists(AcceptedPromiseBucket, promise_id)
                /\ ~IsSome(bucket(bucket_by_promise(promise_id)).promise)
            THEN "Bucket doesnt contains promise"
        ELSE Ok

\* `read` is the outcome of the unsafe read.
stake_to_promise(sender, promise_id, amount, read) ==
    LET check == stake_to_promise_check(sender, promise_id)
        promise_until ==
            IF Exists(AcceptedPromiseBucket, promise_id)
            THEN Unwrap(bucket(bucket_by_promise(promise_id)).promise).until
            ELSE promise(promise_id).until
        until == IF IsSome(promise_until) THEN Unwrap(promise_until) ELSE Unwrap(read)
        lock_id == next_free_lock_identifier
    IN  /\ UNCHANGED << free_balance, block_number, fixed, history >>
        /\ IF check # Ok
           THEN /\ Outcome("stake_to_promise", check, << >>)
                /\ UNCHANGED << storage, locks >>
           ELSE IF read = Trap
           THEN /\ Outcome("stake_to_promise", Panic, << >>)
                /\ UNCHANGED << storage, locks >>
           ELSE IF Exists(LockForPromise, promise_id)
           THEN \* ensure!(lock.is_none(), ..) refuses a lock that is there, and
                \* ensure!(locks.next().is_some(), ..) refuses one that is not:
                \* extend_lock is never reached
                /\ Outcome("stake_to_promise",
                           IF IsSome(get_lock(sender, LockForPromise[promise_id]))
                           THEN "Lock not found"
                           ELSE "Incorrect length of locks with same ID. WTF?!",
                           << >>)
                /\ UNCHANGED << storage, locks >>
           ELSE /\ locks' = [locks EXCEPT ![sender] = set_lock(lock_id, sender, amount, until)]
                /\ LockForPromise' = Put(LockForPromise, promise_id, lock_id)
                /\ LocksCount' = LocksCount + 1
                /\ Outcome("stake_to_promise", Ok,
                           << << "Stake", promise_id, sender, amount >> >>)
                /\ UNCHANGED << bucketStore, allBuckets, ownedBuckets, promiseStore,
                                freePromises, ownedPromises, acceptedPromises, Nonce >>

\* ---------------------------------------------------------- withdraw_staken
\* the errors of the two guards on the lock
StillAttached == "This promise already accepted so stake cannot withdraw."
LockNotMature == "This locked balance period isn't ended and stake cannot withdraw."

\* The owner is looked up with owner_of, the getter of BucketOwner.
withdraw_staken(sender, promise_id) ==
    LET owner == owner_of(promise_id)
        lock_id == LockForPromise[promise_id]
        lock == get_lock(sender, lock_id)
        free == IF IsSome(lock) THEN Unwrap(lock).amount ELSE 0
        fail(error) == /\ Outcome("withdraw_staken", error, << >>)
                       /\ UNCHANGED locks
    IN  /\ UNCHANGED << storage, free_balance, block_number, fixed, history >>
        /\ IF ~Exists(Promises, promise_id) THEN fail("This promise does not exist")
           ELSE IF owner = None THEN fail("No owner for this promise")
           ELSE IF Unwrap(owner) # sender THEN fail("You do not own this promise")
           ELSE IF ~Exists(LockForPromise, promise_id)
           THEN /\ Outcome("withdraw_staken", Ok, << >>)
                /\ UNCHANGED locks
           ELSE IF IsSome(lock) /\ Exists(AcceptedPromiseBucket, promise_id)
           THEN fail(StillAttached)
           ELSE IF IsSome(lock) /\ ~(Unwrap(lock).until <= block_number)
           THEN fail(LockNotMature)
           ELSE /\ locks' = [locks EXCEPT ![sender] = remove_lock(lock_id, sender)]
                /\ Outcome("withdraw_staken", Ok,
                           << << "Withdraw", promise_id, sender, free >> >>)

\* ---------------------------------------------------------- specifications
\* Specifications whose handlers do no unchecked arithmetic start from one build.
InitNoArithmetic == Init /\ overflow_checks = FALSE

\* The per-owner registry: minting and transfers (to anyone, the owner included).
RegistryMaxBuckets == 3   \* create_bucket is enumerated below this many buckets
RegistryMaxOwned == 4     \* a bucket is received only below this per-owner count

NextRegistry ==
    \/ Return
    \/ Idle /\ \E sender \in Accounts :
               AllBucketsCount < RegistryMaxBuckets /\ create_bucket(sender)
    \/ Idle /\ \E sender \in Accounts, to \in Accounts, bucket_id \in BucketIds :
               owned_bucket_count(to) < RegistryMaxOwned /\ transfer(sender, to, bucket_id)

SpecRegistry == InitNoArithmetic /\ [][NextRegistry]_vars

\* The market: minting, transfers, pricing and purchases.
MarketMaxBuckets == 2     \* create_bucket is enumerated below this many buckets
MarketMaxOwned == 3       \* a bucket is received only below this per-owner count
MarketMaxPrice == 1       \* prices and price ceilings are drawn from 0..MarketMaxPrice

NextMarket ==
    \/ Return
    \/ Idle /\ \E sender \in Accounts :
               AllBucketsCount < MarketMaxBuckets /\ create_bucket(sender)
    \/ Idle /\ \E sender \in Accounts, to \in Accounts, bucket_id \in BucketIds :
               owned_bucket_count(to) < MarketMaxOwned /\ transfer(sender, to, bucket_id)
    \/ Idle /\ \E sender \in Accounts, bucket_id \in BucketIds, new_price \in 0 .. MarketMaxPrice :
               set_price(sender, bucket_id, new_price)
    \/ Idle /\ \E sender \in Accounts, bucket_id \in BucketIds, max_price \in 0 .. MarketMaxPrice :
               owned_bucket_count(sender) < MarketMaxOwned
                   /\ buy_bucket(sender, bucket_id, max_price)

SpecMarket == InitNoArithmetic /\ [][NextMarket]_vars

\* Minting of both families and attachment, with transfers changing the owners.
AttachMaxNonce == 3       \* buckets and promises are minted while Nonce is below this
AttachMaxOwned == 1       \* a bucket is received only below this per-owner count

NextAttach ==
    \/ Return
    \/ Idle /\ \E sender \in Accounts :
               Nonce < AttachMaxNonce /\ create_bucket(sender)
    \/ Idle /\ \E sender \in Accounts :
               Nonce < AttachMaxNonce /\ create_promise(sender, 1, 1)
    \/ Idle /\ \E sender \in Accounts, promise_id \in PromiseIds, bucket_id \in BucketIds :
               accept_promise(sender, promise_id, bucket_id)
    \/ Idle /\ \E sender \in Accounts, to \in Accounts, bucket_id \in BucketIds :
               owned_bucket_count(to) < AttachMaxOwned /\ transfer(sender, to, bucket_id)

SpecAttach == InitNoArithmetic /\ [][NextAttach]_vars

\* Filling: a promise of any value is attached and filled, while the bucket is
\* priced and sold.
FillMaxNonce == 2         \* buckets and promises are minted while Nonce is below this
FillMaxOwned == 1         \* a bucket is bought only below this per-owner count
FillMaxValue == 1         \* promise values and deposits are drawn from 0..FillMaxValue
FillPrices == {0, 1}      \* not for sale, or for sale at the smallest price

NextFill ==
    \/ Return
    \/ Idle /\ \E sender \in Accounts :
               Nonce < FillMaxNonce /\ create_bucket(sender)
    \/ Idle /\ \E sender \in Accounts, value \in 0 .. FillMaxValue :
               Nonce < FillMaxNonce /\ create_promise(sender, value, 1)
    \/ Idle /\ \E sender \in Accounts, promise_id \in PromiseIds, bucket_id \in BucketIds :
               accept_promise(sender, promise_id, bucket_id)
    \/ Idle /\ \E sender \in Accounts, bucket_id \in BucketIds, deposit \in 0 .. FillMaxValue :
               fill_bucket(sender, bucket_id, deposit)
    \/ Idle /\ \E sender \in Accounts, bucket_id \in BucketIds :
               fullfill_bucket(sender, bucket_id)
    \/ Idle /\ \E sender \in Accounts, bucket_id \in BucketIds, new_price \in FillPrices :
               set_price(sender, bucket_id, new_price)
    \/ Idle /\ \E sender \in Accounts, bucket_id \in BucketIds, max_price \in FillPrices :
               owned_bucket_count(sender) < FillMaxOwned
                   /\ buy_bucket(sender, bucket_id, max_price)

SpecFill == Init /\ [][NextFill]_vars

\* The scanner: promises of any value and period are attached, filled, and
\* scanned at the end of every block.
ScanMaxNonce == 3         \* buckets and promises are minted while Nonce is below this
ScanMaxValue == 2         \* promise values and deposits are drawn from 0..ScanMaxValue
ScanMaxPeriod == 2        \* promise periods are drawn from 1..ScanMaxPeriod
ScanMaxBlock == 4         \* the driver ends blocks while block_number is below this

NextScan ==
    \/ Return
    \/ Idle /\ \E sender \in Accounts :
               Nonce < ScanMaxNonce /\ create_bucket(sender)
    \/ Idle /\ \E sender \in Accounts, value \in 0 .. ScanMaxValue, period \in 1 .. ScanMaxPeriod :
               Nonce < ScanMaxNonce /\ create_promise(sender, value, period)
    \/ Idle /\ \E sender \in Accounts, promise_id \in PromiseIds, bucket_id \in BucketIds :
               accept_promise(sender, promise_id, bucket_id)
    \/ Idle /\ \E sender \in Accounts, bucket_id \in BucketIds, deposit \in 0 .. ScanMaxValue :
               fill_bucket(sender, bucket_id, deposit)
    \/ Idle /\ block_number < ScanMaxBlock /\ on_finalise

SpecScan == Init /\ [][NextScan]_vars

\* Staking: promises with and without an `until` are created, attached, staked
\* on, withdrawn and edited while blocks pass, so that locks are set and expire.
StakeMaxNonce == 3        \* buckets and promises are minted while Nonce is below this
StakeMaxAmount == 1       \* stakes, promise values and periods are 1 .. StakeMaxAmount
StakeMaxBlock == 2        \* on_finalise runs while block_number is below this
StakeUntils == {None} \cup { Some(u) : u \in 1 .. StakeMaxBlock }

NextStake ==
    \/ Return
    \/ Idle /\ \E sender \in Accounts :
               Nonce < StakeMaxNonce /\ create_bucket(sender)
    \/ Idle /\ \E sender \in Accounts, until \in StakeUntils :
               Nonce < StakeMaxNonce /\ create_promise_until(sender, 1, 1, until)
    \/ Idle /\ \E sender \in Accounts, promise_id \in PromiseIds, bucket_id \in BucketIds :
               accept_promise(sender, promise_id, bucket_id)
    \/ Idle /\ \E sender \in Accounts, promise_id \in PromiseIds,
                  amount \in 1 .. StakeMaxAmount, read \in UnsafeReads :
               stake_to_promise(sender, promise_id, amount, read)
    \/ Idle /\ \E sender \in Accounts, promise_id \in PromiseIds :
               withdraw_staken(sender, promise_id)
    \/ Idle /\ \E sender \in Accounts, promise_id \in PromiseIds,
                  value \in 1 .. StakeMaxAmount, period \in 1 .. StakeMaxAmount :
               edit_promise(sender, promise_id, value, period)
    \/ Idle /\ block_number < StakeMaxBlock /\ on_finalise

SpecStake == Init /\ [][NextStake]_vars

\* Saturated counters: the market on a build whose counters are NarrowU64Max wide,
\* so that the checked additions of mint_bucket and transfer_from can fail.
NarrowU64Max == 2         \* the largest value of a counter in this run
NarrowMaxNonce == 3       \* buckets are minted while Nonce is below this
NarrowMaxPrice == 1       \* prices are 0 .. NarrowMaxPrice

InitNarrow == Genesis /\ u64_max = NarrowU64Max

NextNarrow ==
    \/ Return
    \/ Idle /\ \E sender \in Accounts :
               Nonce < NarrowMaxNonce /\ create_bucket(sender)
    \/ Idle /\ \E sender \in Accounts, to \in Accounts, bucket_id \in BucketIds :
               transfer(sender, to, bucket_id)
    \/ Idle /\ \E sender \in Accounts, bucket_id \in BucketIds, new_price \in 0 .. NarrowMaxPrice :
               set_price(sender, bucket_id, new_price)
    \/ Idle /\ \E sender \in Accounts, bucket_id \in BucketIds, max_price \in 0 .. NarrowMaxPrice :
               buy_bucket(sender, bucket_id, max_price)

SpecNarrow == InitNarrow /\ [][NextNarrow]_vars

\* Sales: buckets are priced and bought, by their owners too.
SaleMaxNonce == 2         \* buckets are minted while Nonce is below this
SalePrices == {0, 1, 2}   \* prices and price ceilings

NextSale ==
    \/ Return
    \/ Idle /\ \E sender \in Accounts :
               Nonce < SaleMaxNonce /\ create_bucket(sender)
    \/ Idle /\ \E sender \in Accounts, bucket_id \in BucketIds, new_price \in SalePrices :
               set_price(sender, bucket_id, new_price)
    \/ Idle /\ \E sender \in Accounts, bucket_id \in BucketIds, max_price \in SalePrices :
               buy_bucket(sender, bucket_id, max_price)

SpecSale == Init /\ [][NextSale]_vars

\* Acceptance: promises of several values, with and without an `until`, are
\* attached to buckets at several blocks.
AcceptMaxMinted == 4      \* buckets and promises are created below this many of them
AcceptMaxBlock == 2       \* on_finalise runs while block_number is below this
AcceptBucketOwners == {"alice"}     \* the accounts that create buckets
AcceptPromiseOwners == {"bob"}      \* the accounts that create promises
\* the promises that are created: their value and their `until`; their period is 3
AcceptPromises == { [value |-> 1, until |-> None], [value |-> 2, until |-> Some(4)] }

NextAccept ==
    \/ Return
    \/ Idle /\ \E sender \in AcceptBucketOwners :
               AllBucketsCount + FreePromisesCount < AcceptMaxMinted /\ create_bucket(sender)
    \/ Idle /\ \E sender \in AcceptPromiseOwners, p \in AcceptPromises :
               AllBucketsCount + FreePromisesCount < AcceptMaxMinted
                   /\ create_promise_until(sender, p.value, 3, p.until)
    \/ Idle /\ \E sender \in Accounts, promise_id \in PromiseIds, bucket_id \in BucketIds :
               accept_promise(sender, promise_id, bucket_id)
    \/ Idle /\ block_number < AcceptMaxBlock /\ on_finalise

SpecAccept == Init /\ [][NextAccept]_vars

\* A whole life: every operation of the module, on few buckets and promises.
LifeMaxMinted == 2        \* buckets and promises are created below this many of them
LifeMaxOwned == 2         \* a bucket is received only below this per-owner count
LifeMaxBlock == 2         \* on_finalise runs while block_number is below this
LifeAmounts == {1}        \* deposits, stakes, prices above 0, values and periods
LifeUntils == {None, Some(2)}

NextLife ==
    \/ Return
    \/ Idle /\ \E sender \in AcceptBucketOwners :
               AllBucketsCount + FreePromisesCount < LifeMaxMinted /\ create_bucket(sender)
    \/ Idle /\ \E sender \in AcceptPromiseOwners, value \in LifeAmounts, until \in LifeUntils :
               AllBucketsCount + FreePromisesCount < LifeMaxMinted
                   /\ create_promise_until(sender, value, 1, until)
    \/ Idle /\ \E sender \in Accounts, promise_id \in PromiseIds, bucket_id \in BucketIds :
               accept_promise(sender, promise_id, bucket_id)
    \/ Idle /\ \E sender \in Accounts, bucket_id \in BucketIds, deposit \in LifeAmounts :
               fill_bucket(sender, bucket_id, deposit)
    \/ Idle /\ \E sender \in Accounts, bucket_id \in BucketIds :
               fullfill_bucket(sender, bucket_id)
    \/ Idle /\ \E sender \in Accounts, promise_id \in PromiseIds,
                  value \in LifeAmounts, period \in LifeAmounts :
               edit_promise(sender, promise_id, value, period)
    \/ Idle /\ \E sender \in Accounts, promise_id \in PromiseIds,
                  amount \in LifeAmounts, read \in UnsafeReads :
               stake_to_promise(sender, promise_id, amount, read)
    \/ Idle /\ \E sender \in Accounts, promise_id \in PromiseIds :
               withdraw_staken(sender, promise_id)
    \/ Idle /\ \E sender \in Accounts, bucket_id \in BucketIds,
                  new_price \in {0} \cup LifeAmounts :
               set_price(sender, bucket_id, new_price)
    \/ Idle /\ \E sender \in Accounts, to \in Accounts, bucket_id \in BucketIds :
               owned_bucket_count(to) < LifeMaxOwned /\ transfer(sender, to, bucket_id)
    \/ Idle /\ \E sender \in Accounts, bucket_id \in BucketIds, max_price \in LifeAmounts :
               owned_bucket_count(sender) < LifeMaxOwned
                   /\ buy_bucket(sender, bucket_id, max_price)
    \/ Idle /\ block_number < LifeMaxBlock /\ on_finalise

SpecLife == Init /\ [][NextLife]_vars

\* Locks: promises are created and staked on by any account while blocks pass.
LockMaxNonce == 2         \* promises are minted while Nonce is below this
LockMaxBlock == 2         \* on_finalise runs while block_number is below this

NextLock ==
    \/ Return
    \/ Idle /\ \E sender \in Accounts, until \in LifeUntils :
               Nonce < LockMaxNonce /\ create_promise_until(sender, 1, 1, until)
    \/ Idle /\ \E sender \in Accounts, promise_id \in PromiseIds,
                  amount \in LifeAmounts, read \in UnsafeReads :
               stake_to_promise(sender, promise_id, amount, read)
    \/ Idle /\ \E sender \in Accounts, promise_id \in PromiseIds :
               withdraw_staken(sender, promise_id)
    \/ Idle /\ block_number < LockMaxBlock /\ on_finalise

SpecLock == Init /\ [][NextLock]_vars

\* Ticks: promises of any period, 0 included, are attached and scanned.
TickMaxNonce == 2         \* buckets and promises are minted while Nonce is below this
TickMaxPeriod == 1        \* periods are 0 .. TickMaxPeriod
TickMaxBlock == 2         \* on_finalise runs while block_number is below this
TickValues == {0, 1}      \* the values of the promises

NextTick ==
    \/ Return
    \/ Idle /\ \E sender \in Accounts :
               Nonce < TickMaxNonce /\ create_bucket(sender)
    \/ Idle /\ \E sender \in Accounts, value \in TickValues, period \in 0 .. TickMaxPeriod :
               Nonce < TickMaxNonce /\ create_promise(sender, value, period)
    \/ Idle /\ \E sender \in Accounts, promise_id \in PromiseIds, bucket_id \in BucketIds :
               accept_promise(sender, promise_id, bucket_id)
    \/ Idle /\ block_number < TickMaxBlock /\ on_finalise

SpecTick == Init /\ [][NextTick]_vars

\* -------------------------------------------------------------- properties
\* the indices at which `who`'s per-owner array has an entry
OwnedIndices(who) == { k[2] : k \in { kk \in DOMAIN OwnedBucketsArray : kk[1] = who } }

\* the buckets whose owner is `who`
OwnedBy(who) == { id \in DOMAIN BucketOwner : BucketOwner[id] = who }

\* the per-owner array entry of `who` at index i
OwnedAt(who, i) == Get(OwnedBucketsArray, << who, i >>, ZeroHash)

\* the events of the call being answered that have the given name
EventsNamed(name) == { i \in 1 .. Len(last.events) : last.events[i][1] = name }

Max(S) == CHOOSE x \in S : \A y \in S : y <= x

\* C1: in every reachable state of create_bucket / transfer / buy_bucket, for
\* every account the per-owner count equals the number of entries of its
\* per-owner array, the entries occupy exactly the indices 0..count-1, and
\* OwnedBucketsArray[(owner, OwnedBucketsIndex[id])] = id for every bucket the
\* account owns.
C1_PerOwnerRegistry ==
    \A who \in Accounts :
        /\ owned_bucket_count(who) = Cardinality(OwnedIndices(who))
        /\ OwnedIndices(who) = 0 .. (owned_bucket_count(who) - 1)
        /\ \A id \in OwnedBy(who) :
               /\ Exists(OwnedBucketsIndex, id)
               /\ OwnedAt(who, OwnedBucketsIndex[id]) = id

\* C2: for buckets and for free promises alike, the global count equals the
\* number of successful mints, the global array is defined exactly on
\* 0..count-1, array[index(id)] = id for every minted id, and no two minted ids
\* share a global index.
C2_GlobalRegistries ==
    /\ AllBucketsCount = Len(minted_buckets)
    /\ DOMAIN AllBucketsArray = 0 .. (AllBucketsCount - 1)
    /\ \A i \in 1 .. Len(minted_buckets) :
           /\ Exists(AllBucketsIndex, minted_buckets[i])
           /\ Get(AllBucketsArray, AllBucketsIndex[minted_buckets[i]], ZeroHash)
                  = minted_buckets[i]
           /\ \A j \in 1 .. Len(minted_buckets) :
                  i # j => AllBucketsIndex[minted_buckets[i]] # AllBucketsIndex[minted_buckets[j]]
    /\ FreePromisesCount = Len(minted_promises)
    /\ DOMAIN FreePromisesArray = 0 .. (FreePromisesCount - 1)
    /\ \A i \in 1 .. Len(minted_promises) :
           /\ Exists(FreePromisesIndex, minted_promises[i])
           /\ Get(FreePromisesArray, FreePromisesIndex[minted_promises[i]], ZeroHash)
                  = minted_promises[i]
           /\ \A j \in 1 .. Len(minted_promises) :
                  i # j => FreePromisesIndex[minted_promises[i]]
                               # FreePromisesIndex[minted_promises[j]]

\* two buckets and a free promise have been minted and a promise is attached
C2_Witness ==
    /\ Len(minted_buckets) = 2
    /\ Len(minted_promises) = 1
    /\ AcceptedPromisesCount = 1

\* C3: once a transfer of bucket id from A to B has succeeded (transfer or
\* buy_bucket), owner_of(id) = B, id appears in B's per-owner array exactly
\* once, at OwnedBucketsIndex[id], and nowhere in A's per-owner array.
C3_TransferMovesBucket ==
    \A e \in EventsNamed("Transferred") :
        LET A == last.events[e][2]
            B == last.events[e][3]
            id == last.events[e][4]
        IN  /\ owner_of(id) = Some(B)
            /\ Cardinality({ i \in OwnedIndices(B) : OwnedAt(B, i) = id }) = 1
            /\ OwnedAt(B, Get(OwnedBucketsIndex, id, 0)) = id
            /\ \A i \in OwnedIndices(A) : OwnedAt(A, i) # id

\* C4: when the bucket at index i of the sender's per-owner array is
\* transferred away and i is not the last index, the formerly-last bucket moves
\* to index i with its reverse index set to i, and every other bucket of the
\* sender keeps its array position and reverse index; when i is the last
\* index no other bucket moves.
C4_SwapRemoveStep ==
    \A A \in Accounts, B \in Accounts, id \in BucketIds :
        ( /\ Idle
          /\ last'.op = "transfer"
          /\ last'.result = Ok
          /\ A # B
          /\ owner_of(id) = Some(A)
          /\ transfer(A, B, id) ) =>
            LET i == Get(OwnedBucketsIndex, id, 0)
                hi == Max(OwnedIndices(A))
                formerly_last == OwnedAt(A, hi)
                others == OwnedBy(A) \ {id}
                kept(c) == /\ Get(OwnedBucketsIndex', c, 0) = Get(OwnedBucketsIndex, c, 0)
                           /\ Get(OwnedBucketsArray', << A, Get(OwnedBucketsIndex, c, 0) >>,
                                  ZeroHash) = c
            IN  IF i # hi
                THEN /\ Get(OwnedBucketsArray', << A, i >>, ZeroHash) = formerly_last
                     /\ Get(OwnedBucketsIndex', formerly_last, 0) = i
                     /\ \A c \in others \ {formerly_last} : kept(c)
                ELSE \A c \in others : kept(c)

C4_SwapRemove == [][C4_SwapRemoveStep]_vars

\* the attached promise of bucket b, before and after a step
Attached(b) == Unwrap(bucket(b).promise)
AttachedAfter(b) == Unwrap(Get(Buckets', b, DefaultBucket).promise)

\* whether bucket b holds a promise
HoldsPromise(b) == Exists(Buckets, b) /\ IsSome(bucket(b).promise)

\* C5: accept_promise on a promise that is already attached to some bucket, or
\* on a bucket that already holds a promise, fails, leaves every storage item
\* unchanged and emits no event.
C5_ReattachStep ==
    (Idle /\ last'.op = "accept_promise") =>
        LET occupied == { b \in DOMAIN Buckets : HoldsPromise(b) }
            attached == { Attached(b).id : b \in occupied }
        IN  \A sender \in Accounts, promise_id \in PromiseIds, bucket_id \in BucketIds :
                ( /\ promise_id \in attached \/ bucket_id \in occupied
                  /\ accept_promise(sender, promise_id, bucket_id) )
                    => /\ last'.result \notin {Ok, Panic}
                       /\ last'.events = << >>
                       /\ UNCHANGED storage

C5_ReattachRejected == [][C5_ReattachStep]_vars

\* accept_promise has been refused on an occupied bucket, for a promise that
\* is itself still free
C5_Witness ==
    /\ last.op = "accept_promise"
    /\ last.result = "Bucket already contains another promise"
    /\ AcceptedPromisesCount = 1

\* C6: if the owner of the promise is the owner of the target bucket,
\* accept_promise fails for every caller and the bucket is left as it was.
C6_SelfAttachStep ==
    \A sender \in Accounts, promise_id \in PromiseIds, bucket_id \in BucketIds :
        ( /\ Idle
          /\ last'.op = "accept_promise"
          /\ IsSome(owner_of_promise(promise_id))
          /\ owner_of_promise(promise_id) = owner_of(bucket_id)
          /\ accept_promise(sender, promise_id, bucket_id) )
            => /\ last'.result \notin {Ok, Panic}
               /\ Buckets' = Buckets

C6_SelfAttachRejected == [][C6_SelfAttachStep]_vars

\* the owner of a bucket has been refused their own promise
C6_Witness ==
    /\ last.op = "accept_promise"
    /\ last.result = "You can not accept your own promise"

C8_FulfilledStep ==
    \A b \in DOMAIN Buckets :
        ( /\ Idle
          /\ last'.op \in {"fill_bucket", "fullfill_bucket"}
          /\ last'.result = Ok
          /\ last'.events[1][2] = b )
            => LET emitted == Cardinality({ i \in 1 .. Len(last'.events) :
                                  last'.events[i]
                                      = << "PromiseFullilled", b, Attached(b).id >> })
                   first == /\ Attached(b).filled < Attached(b).value
                            /\ AttachedAfter(b).filled >= Attached(b).value
               IN  emitted = IF first THEN 1 ELSE 0

C8_FulfilledOnce == [][C8_FulfilledStep]_vars

FillAmounts == 0 .. FillMaxValue

\* C9: fill_bucket fails, moving no currency and changing no state, whenever
\* the caller owns the bucket, the bucket holds no promise, the promise's value
\* is zero, or filled has reached value (filled >= value).
C9_FillRefusedStep ==
    \A sender \in Accounts, bucket_id \in DOMAIN Buckets, deposit \in FillAmounts :
        ( /\ Idle
          /\ last'.op = "fill_bucket"
          /\ \/ owner_of(bucket_id) = Some(sender)
             \/ ~HoldsPromise(bucket_id)
             \/ Attached(bucket_id).value = 0
             \/ Attached(bucket_id).filled >= Attached(bucket_id).value
          /\ fill_bucket(sender, bucket_id, deposit) )
            => /\ last'.result # Ok
               /\ UNCHANGED << storage, free_balance >>

C9_FillRefused == [][C9_FillRefusedStep]_vars

\* C10: at tick n the scanner emits PromiseBreached for an attached promise
\* exactly when (n - acception_dt) mod period = 0 and filled - value, taken
\* as a signed difference, is positive: once then, and not at all otherwise.
C10_BreachedStep ==
    (Idle /\ last'.op = "on_finalise") =>
        \A i \in 0 .. (AcceptedPromisesCount - 1) :
            LET promise_id == accepted_promise_by_index(i)
                bucket_id == bucket_by_promise(promise_id)
                promise_ == Attached(bucket_id)
                n == block_number
                due == /\ (n - promise_.acception_dt) % promise_.period = 0
                       /\ promise_.filled - promise_.value > 0
                emitted == Cardinality({ e \in 1 .. Len(last'.events) :
                               /\ last'.events[e][1] = "PromiseBreached"
                               /\ last'.events[e][2] = bucket_id
                               /\ last'.events[e][3] = promise_id })
            IN  emitted = IF due THEN 1 ELSE 0

C10_BreachedIff == [][C10_BreachedStep]_vars

\* the lock that LockForPromise names for the promise, on the ledger of `who`
LockOf(who, promise_id) == get_lock(who, Get(LockForPromise, promise_id, 0))
LockOfAfter(who, promise_id) == LockOf(who, promise_id)'

\* the unsafe read of stake_to_promise returned a value
ReadsReturning == UnsafeReads \ {Trap}

\* C11: a second stake_to_promise by the owner on a promise that already has a
\* lock succeeds, keeps LockForPromise[promise] and LocksCount, and extends that
\* lock to the amount locked before plus the amount staked, without a second lock.
C11_SecondStakeStep ==
    \A sender \in Accounts, promise_id \in PromiseIds,
       amount \in 1 .. StakeMaxAmount, read \in ReadsReturning :
        ( /\ Idle
          /\ owner_of_promise(promise_id) = Some(sender)
          /\ Exists(LockForPromise, promise_id)
          /\ IsSome(LockOf(sender, promise_id))
          /\ stake_to_promise(sender, promise_id, amount, read) )
        => /\ last'.result = Ok
           /\ LockForPromise'[promise_id] = LockForPromise[promise_id]
           /\ LocksCount' = LocksCount
           /\ Len(locks'[sender]) = Len(locks[sender])
           /\ IsSome(LockOfAfter(sender, promise_id))
           /\ Unwrap(LockOfAfter(sender, promise_id)).amount
                  = Unwrap(LockOf(sender, promise_id)).amount + amount
C11_SecondStakeExtends == [][C11_SecondStakeStep]_vars

\* C12: withdraw_staken by the promise's owner on a promise that has a lock fails
\* with the still-attached error if the promise is attached; fails with the
\* lock-not-mature error if it is unattached and the lock expires after the
\* current block; otherwise it succeeds, removes the lock from the ledger and
\* reports the locked amount in a Withdraw event.
C12_WithdrawStep ==
    \A sender \in Accounts, promise_id \in PromiseIds :
        ( /\ Idle
          /\ owner_of_promise(promise_id) = Some(sender)
          /\ Exists(LockForPromise, promise_id)
          /\ IsSome(LockOf(sender, promise_id))
          /\ withdraw_staken(sender, promise_id) )
        => LET lock == Unwrap(LockOf(sender, promise_id))
           IN  IF Exists(AcceptedPromiseBucket, promise_id)
               THEN last'.result = StillAttached
               ELSE IF lock.until > block_number
               THEN last'.result = LockNotMature
               ELSE /\ last'.result = Ok
                    /\ ~IsSome(LockOfAfter(sender, promise_id))
                    /\ last'.events = << << "Withdraw", promise_id, sender, lock.amount >> >>
C12_WithdrawOutcomes == [][C12_WithdrawStep]_vars

\* C13: a call that returns an error leaves the storage, the balances and the
\* locks as they were before it and deposits no event, whichever guard or inner
\* call the error comes from.
C13_ErrorStep ==
    (Idle /\ last'.result \notin {Ok, Panic})
        => /\ UNCHANGED << storage, free_balance, locks >>
           /\ last'.events = << >>
C13_ErrorsChangeNothing == [][C13_ErrorStep]_vars

\* C14: buy_bucket fails and changes no storage and no balance whenever the caller
\* owns the bucket, the bucket's price is 0, or the price exceeds max_price.
C14_BuyRefusedStep ==
    (Idle /\ last'.op = "buy_bucket") =>
    \A sender \in Accounts, bucket_id \in DOMAIN Buckets, max_price \in SalePrices :
        ( /\ Idle
          /\ \/ owner_of(bucket_id) = Some(sender)
             \/ bucket(bucket_id).price = 0
             \/ bucket(bucket_id).price > max_price
          /\ buy_bucket(sender, bucket_id, max_price) )
        => /\ last'.result \notin {Ok, Panic}
           /\ last'.events = << >>
           /\ UNCHANGED << storage, free_balance, locks >>
C14_BuyRefused == [][C14_BuyRefusedStep]_vars

\* a buy of a bucket whose price is 0 has just been refused
C14_Witness ==
    /\ last.op = "buy_bucket"
    /\ last.result = "The bucket you want to buy is not for sale"
    /\ last.events = << >>

\* C15: after a successful buy_bucket of bucket S at price p by caller C from
\* owner O, C's balance is p lower and O's is p higher, C owns S, the price of S
\* is 0, and the promise S holds (if any) is unchanged.
C15_BoughtStep ==
    (Idle /\ last'.op = "buy_bucket" /\ last'.result = Ok) =>
    \A sender \in Accounts, bucket_id \in DOMAIN Buckets, max_price \in FillPrices :
        buy_bucket(sender, bucket_id, max_price)
        => LET owner == Unwrap(owner_of(bucket_id))
               price == bucket(bucket_id).price
               bought == Get(Buckets', bucket_id, DefaultBucket)
           IN  /\ owner # sender
               /\ free_balance'[sender] = free_balance[sender] - price
               /\ free_balance'[owner] = free_balance[owner] + price
               /\ \A other \in Accounts \ {sender, owner} :
                      free_balance'[other] = free_balance[other]
               /\ Get(BucketOwner', bucket_id, ZeroHash) = sender
               /\ bought.price = 0
               /\ bought.id = bucket_id
               /\ bought.promise = bucket(bucket_id).promise
C15_Bought == [][C15_BoughtStep]_vars

\* a bucket that holds a promise has just been bought at a price above 0
C15_Witness ==
    /\ last.op = "buy_bucket"
    /\ last.result = Ok
    /\ \E i \in EventsNamed("Bought") :
           last.events[i][5] > 0 /\ HoldsPromise(last.events[i][4])

\* C16: after a successful accept_promise(promise C, bucket S) at block t by the
\* owner of S, S holds a promise with id C, the owner of C, the value, period and
\* until of the free record, acception_dt = t and filled = 0; bucket_by_promise(C)
\* is S; the accepted registry grew by exactly one entry, C at the previous count;
\* the contributor of S is C's owner; the free record and its registries are
\* unchanged.
C16_AcceptedStep ==
    (Idle /\ last'.op = "accept_promise" /\ last'.result = Ok) =>
    \A sender \in Accounts, promise_id \in DOMAIN Promises, bucket_id \in DOMAIN Buckets :
        accept_promise(sender, promise_id, bucket_id)
        => LET free_promise == promise(promise_id)
               promise_owner == PromiseOwner[promise_id]
               count == AcceptedPromisesCount
           IN  /\ owner_of(bucket_id) = Some(sender)
               /\ IsSome(Get(Buckets', bucket_id, DefaultBucket).promise)
               /\ AttachedAfter(bucket_id) =
                      [id |-> promise_id, owner |-> promise_owner,
                       value |-> free_promise.value, period |-> free_promise.period,
                       until |-> free_promise.until, acception_dt |-> block_number,
                       filled |-> 0]
               /\ Get(AcceptedPromiseBucket', promise_id, ZeroHash) = bucket_id
               /\ AcceptedPromisesCount' = count + 1
               /\ DOMAIN AcceptedPromisesArray' = DOMAIN AcceptedPromisesArray \cup {count}
               /\ AcceptedPromisesArray'[count] = promise_id
               /\ \A i \in DOMAIN AcceptedPromisesArray :
                      i # count => AcceptedPromisesArray'[i] = AcceptedPromisesArray[i]
               /\ Get(AcceptedPromisesIndex', promise_id, 0) = count
               /\ Get(BucketContributor', bucket_id, ZeroHash) = promise_owner
               /\ UNCHANGED << promiseStore, freePromises, ownedPromises >>
C16_Accepted == [][C16_AcceptedStep]_vars

\* a second promise, one with an `until`, has just been accepted after block 1
C16_Witness ==
    /\ last.op = "accept_promise"
    /\ last.result = Ok
    /\ AcceptedPromisesCount = 2
    /\ block_number > 1
    /\ \E b \in DOMAIN Buckets :
           /\ HoldsPromise(b)
           /\ Attached(b).id = last.events[1][2]
           /\ IsSome(Attached(b).until)
           /\ Attached(b).acception_dt = block_number

\* C17: edit_promise by the account that owns an existing free promise succeeds
\* and sets the promise's value and period to the supplied ones, leaving its
\* until and its owner unchanged; by any other account it fails and changes
\* nothing.
C17_EditStep ==
    (Idle /\ last'.op = "edit_promise") =>
    \A sender \in Accounts, promise_id \in DOMAIN Promises,
       value \in 1 .. StakeMaxAmount, period \in 1 .. StakeMaxAmount :
        edit_promise(sender, promise_id, value, period)
        => IF owner_of_promise(promise_id) = Some(sender)
           THEN /\ last'.result = Ok
                /\ Promises' = Put(Promises, promise_id,
                                   [promise(promise_id) EXCEPT !.value = value,
                                                               !.period = period])
                /\ PromiseOwner' = PromiseOwner
           ELSE /\ last'.result \notin {Ok, Panic}
                /\ UNCHANGED << storage, free_balance, locks >>
C17_EditByOwner == [][C17_EditStep]_vars

\* C18: fullfill_bucket on a bucket whose promise has filled < value, called by
\* an account that is not the bucket's owner and has the balance for it, deposits
\* exactly value - filled: afterwards filled = value and the caller's balance is
\* value - filled lower.
C18_FullfillStep ==
    (Idle /\ last'.op = "fullfill_bucket") =>
    \A sender \in Accounts, bucket_id \in DOMAIN Buckets :
        ( /\ HoldsPromise(bucket_id)
          /\ Attached(bucket_id).filled < Attached(bucket_id).value
          /\ owner_of(bucket_id) # Some(sender)
          /\ free_balance[sender] >= Attached(bucket_id).value - Attached(bucket_id).filled
          /\ fullfill_bucket(sender, bucket_id) )
        => LET remaining == Attached(bucket_id).value - Attached(bucket_id).filled
           IN  /\ last'.result = Ok
               /\ AttachedAfter(bucket_id).filled = Attached(bucket_id).value
               /\ free_balance'[sender] = free_balance[sender] - remaining
C18_FullfillDepositsRemaining == [][C18_FullfillStep]_vars

\* C19: a run of on_finalise changes no storage: every bucket with its promise,
\* every registry, the lock maps, the nonce, and every balance and lock of the
\* ledger are the same after it as before it; all it deposits are
\* PromiseBreached events.
C19_ScanStep ==
    (Idle /\ last'.op = "on_finalise")
        => /\ UNCHANGED << storage, free_balance, locks >>
           /\ \A i \in 1 .. Len(last'.events) : last'.events[i][1] = "PromiseBreached"
C19_ScanChangesNothing == [][C19_ScanStep]_vars

\* the scanner has just reported a breach of a promise that was filled in part or
\* in excess, while a lock is set
C19_Witness ==
    /\ last.op = "on_finalise"
    /\ EventsNamed("PromiseBreached") # {}
    /\ \E a \in Accounts : locks[a] # << >>
    /\ \E b \in DOMAIN Buckets : HoldsPromise(b) /\ Attached(b).filled > 0

\* C20: attachment is permanent.  A bucket that holds promise C holds it after
\* every step (a fill, an edit, a stake, a withdrawal, a price change, a transfer,
\* a purchase, a scanner run), with the same value, period, until, owner and
\* acception_dt; bucket_by_promise(C) is that bucket before and after; and every
\* bucket that exists still exists.
C20_AttachedStep ==
    \A b \in DOMAIN Buckets :
        /\ b \in DOMAIN Buckets'
        /\ HoldsPromise(b) =>
               /\ bucket_by_promise(Attached(b).id) = b
               /\ IsSome(Buckets'[b].promise)
               /\ AttachedAfter(b).id = Attached(b).id
               /\ AttachedAfter(b).value = Attached(b).value
               /\ AttachedAfter(b).period = Attached(b).period
               /\ AttachedAfter(b).until = Attached(b).until
               /\ AttachedAfter(b).owner = Attached(b).owner
               /\ AttachedAfter(b).acception_dt = Attached(b).acception_dt
               /\ Get(AcceptedPromiseBucket', Attached(b).id, ZeroHash) = b
C20_AttachmentPermanent == [][C20_AttachedStep]_vars

\* a bucket that holds a promise accepted at an earlier block has received a
\* deposit, has changed hands, and its promise's owner has a stake locked
C20_Witness ==
    \E b \in DOMAIN Buckets :
        /\ HoldsPromise(b)
        /\ bucket_by_promise(Attached(b).id) = b
        /\ Attached(b).acception_dt < block_number
        /\ Attached(b).filled > 0
        /\ BucketOwner[b] \notin AcceptBucketOwners
        /\ locks[Attached(b).owner] # << >>

\* the lock identifiers that LockForPromise records
LockIds == { LockForPromise[p] : p \in DOMAIN LockForPromise }

\* C21: a promise has at most one lock identifier in LockForPromise; identifiers
\* are allocated as LocksCount + 1, and LocksCount grows by exactly 1 with every
\* lock created; two promises never share an identifier; and every identifier
\* recorded is in 1 .. LocksCount.
C21_LockIdsStep ==
    /\ LockIds \subseteq 1 .. LocksCount
    /\ \A p, q \in DOMAIN LockForPromise :
           LockForPromise[p] = LockForPromise[q] => p = q
    /\ Cardinality(DOMAIN LockForPromise) = LocksCount
    /\ \A p \in DOMAIN LockForPromise :
           p \in DOMAIN LockForPromise' /\ LockForPromise'[p] = LockForPromise[p]
    /\ \A p \in DOMAIN LockForPromise' \ DOMAIN LockForPromise :
           /\ LockForPromise'[p] = LocksCount + 1
           /\ LocksCount' = LocksCount + 1
    /\ DOMAIN LockForPromise' = DOMAIN LockForPromise => LocksCount' = LocksCount
    /\ LockIds' \subseteq 1 .. LocksCount'
C21_LockIds == [][C21_LockIdsStep]_vars

\* two promises have a lock each
C21_Witness ==
    /\ LocksCount = 2
    /\ Cardinality(DOMAIN LockForPromise) = 2
    /\ \E a \in Accounts : Len(locks[a]) = 2

\* the buckets that hold a promise
Holders == { b \in DOMAIN Buckets : HoldsPromise(b) }

\* C22: the bookkeeping of attached promises is consistent: AcceptedPromisesCount
\* is the number of buckets that hold a promise and the number of keys of
\* AcceptedPromiseBucket; for every index i below the count the promise id at
\* AcceptedPromisesArray[i] has AcceptedPromisesIndex i and bucket_by_promise
\* maps it to a bucket whose promise has that id; and AcceptedPromiseBucket is
\* injective.
C22_AttachedConsistent ==
    /\ AcceptedPromisesCount = Cardinality(Holders)
    /\ AcceptedPromisesCount = Cardinality(DOMAIN AcceptedPromiseBucket)
    /\ DOMAIN AcceptedPromisesArray = 0 .. AcceptedPromisesCount - 1
    /\ \A i \in 0 .. AcceptedPromisesCount - 1 :
           LET id == accepted_promise_by_index(i)
               b == bucket_by_promise(id)
           IN  /\ Exists(AcceptedPromisesIndex, id)
               /\ AcceptedPromisesIndex[id] = i
               /\ Exists(AcceptedPromiseBucket, id)
               /\ HoldsPromise(b)
               /\ Attached(b).id = id
    /\ \A p, q \in DOMAIN AcceptedPromiseBucket :
           AcceptedPromiseBucket[p] = AcceptedPromiseBucket[q] => p = q
    /\ \A b \in Holders : bucket_by_promise(Attached(b).id) = b

\* two buckets hold a promise each
C22_Witness ==
    /\ AcceptedPromisesCount = 2
    /\ Cardinality(Holders) = 2
    /\ Idle

\* C23: in every state the owner of a bucket that holds a promise is not the
\* owner of that promise: what accept_promise refuses stays excluded after every
\* transfer and every buy_bucket.
C23_OwnerIsNotContributor ==
    \A b \in Holders : owner_of(b) # Some(Attached(b).owner)

\* C24: the scanner runs to completion at the end of every block, in every
\* state: for no attached promise (one of period 0 and one with filled < value
\* included) does n - acception_dt, filled - value or lifetime % period divide
\* by zero or underflow, so every run ends and the next block begins.
C24_ScanStep ==
    (Idle /\ last'.op = "on_finalise")
        => /\ last'.result = Ok
           /\ block_number' = block_number + 1
C24_ScanCompletes == [][C24_ScanStep]_vars

====
